---- MODULE Spec2Model ----
(***************************************************************************)
(* The oneshot channel of liten (liten/src/sync/oneshot.rs).               *)
(*                                                                         *)
(* One Channel block is shared by one Receiver handle and by the Sender    *)
(* handles that exist for it: the one channel() returns and the ones       *)
(* try_get_sender returns.  Every handler is cut into one step per access  *)
(* to the shared block (the atomic state word, the waker slot, the value   *)
(* slot), so that the steps of the handles interleave as they do when the  *)
(* handles run on different threads.  Two accesses to a slot that are      *)
(* enabled in the same state, one of them a write, are a data race.  A     *)
(* read of the waker slot by a Sender that loaded the state word before a  *)
(* poll wrote the slot, or while that write was not yet published, races   *)
(* with the write: it yields the new callback, the old one or garbage.     *)
(***************************************************************************)
EXTENDS Integers, FiniteSets, Sequences, TLC

\* ---------------------------------------------------------------- bounds
MaxSenders == 2     \* Sender handles that exist at the same time
MaxWaker == 2       \* resumption callbacks are 1..MaxWaker

Senders == 1..MaxSenders

\* The argument of send.  V is a type parameter the channel never inspects,
\* so the payloads only need to be told apart: the handle in slot s sends s.
Payload(s) == s
Values == {Payload(s) : s \in Senders}
Wakers == 1..MaxWaker

\* MaybeUninit::uninit(): the slot holds no initialised object.
Uninit == 0

\* ------------------------------------------------------- ChannelState flags
RECEIVER_DROPPED == "RECEIVER_DROPPED"
SENDER_DROPPED == "SENDER_DROPPED"
SENDER_SENT == "SENDER_SENT"
WAKER_REGISTERED == "WAKER_REGISTERED"
Flags == {RECEIVER_DROPPED, SENDER_DROPPED, SENDER_SENT, WAKER_REGISTERED}
INITIALISED == {}

\* An insert that stores the flag alone and loses the flags already set.
Insert_Overwrite(st, f) == {f}

\* bitflags insert / contains on a state word (a set of flags).
Insert(st, f) == st \cup {f}
Contains(st, f) == f \in st

VARIABLES
  state,      \* Channel.state: the atomic flag word
  waker,      \* Channel.waker: Uninit or the stored callback
  value,      \* Channel.value: Uninit or the stored payload
  snd,        \* per Sender handle: pc, val (the argument of send, while the
              \*   handle or the channel holds it), res (the result of send),
              \*   owes ("owed": WAKER_REGISTERED was set when its send or
              \*   drop began; "paid": and it has invoked the callback
              \*   since; "no": it was not set), racy (its coming read
              \*   of the waker slot races with a write by poll)
  rpc,        \* the Receiver's position
  rcx,        \* the callback the Receiver's last call was given
              \*   (cx.waker() of a poll, Uninit for a try_recv)
  rres,       \* the result of the last try_recv / poll that returned
  rseen,      \* the values whose send had returned Ok when the call that
              \*   is about to read the value slot loaded the state
  gotValue,   \* a call has returned a sent value
  errSeen,    \* a call has returned SenderDroppedError
  woken,      \* the callback invoked since the waker slot was last written
              \*   (Uninit: none)
  wokeParked, \* that invocation came after the poll that wrote the slot
              \*   had returned Pending and before any later Receiver
              \*   call, from a read that raced with no write
  replaced    \* what the waker slot held before the last poll wrote it
              \*   (Uninit: nothing, or a Receiver call has started since)

vars == <<state, waker, value, snd, rpc, rcx, rres, rseen, gotValue,
          errSeen, woken, wokeParked, replaced>>

chan == <<state, waker, value>>
rcv == <<rpc, rcx, rres, rseen, gotValue, errSeen, replaced>>

NoRes == [kind |-> "none", val |-> Uninit]

\* channel(): one block, one Sender, one Receiver.
Init ==
  /\ state = INITIALISED
  /\ waker = Uninit
  /\ value = Uninit
  /\ snd = [s \in Senders |->
              [pc |-> IF s = 1 THEN "idle" ELSE "none", val |-> Uninit,
               res |-> "none", owes |-> "no", racy |-> FALSE]]
  /\ rpc = "idle"
  /\ rcx = Uninit
  /\ rres = NoRes
  /\ rseen = {}
  /\ gotValue = FALSE
  /\ errSeen = FALSE
  /\ woken = Uninit
  /\ wokeParked = FALSE
  /\ replaced = Uninit

\* The Senders whose send has returned Ok (the handle is consumed).
SentOk == {s \in Senders : snd[s].pc = "done" /\ snd[s].res = "Ok"}
SentOkValues == {snd[s].val : s \in SentOk}

\* assume_init_ref / ptr::read of a slot: the object it holds, and any bit
\* pattern at all when it holds none (Uninit stands for the garbage ones).
ReadSlot(slot, objects) ==
  IF slot = Uninit THEN objects \cup {Uninit} ELSE {slot}

\* A poll is in its None arm and has not yet published its write of the
\* waker slot with the fetch_update.  Nothing orders that write_waker with
\* the read of the slot by a Sender that has loaded the state word and is
\* on its way to wake_by_ref: the two accesses race.
WriterPending == rpc \in {"p_write", "p_insert"}
AtWakerRead(s) == snd[s].pc \in {"s_wake", "d_wake"}

\* The Receiver's last call was a poll that returned Pending.
Parked == rpc = "idle" /\ rres.kind = "Pending"

\* Channel::wake_unchecked and the body of Drop for Sender's if: invoke
\* the callback the waker slot holds.  A read that races with the write of
\* a poll gets the callback in the slot, the one the write replaced, or a
\* torn mix of the two that is no callback.
WakeUnchecked(racy) ==
  \E w \in (IF racy THEN {waker, replaced, Uninit}
            ELSE ReadSlot(waker, Wakers)) :
     /\ woken' = w
     /\ wokeParked' = (Parked /\ ~racy)

\* ------------------------------------------------------------ Sender side

\* The slot of the model a new handle takes: one that never held a handle
\* if there is one, else one whose handle has finished its drop.
UnusedSenders == {s \in Senders : snd[s].pc = "none"}
FreeSenders == {s \in Senders : snd[s].pc \in {"none", "done"}}
NewSender ==
  LET pool == IF UnusedSenders # {} THEN UnusedSenders ELSE FreeSenders
  IN  CHOOSE s \in pool : \A t \in pool : s <= t
FreshHandle ==
  [pc |-> "idle", val |-> Uninit, res |-> "none", owes |-> "no",
   racy |-> FALSE]

Paid(o) == IF o = "owed" THEN "paid" ELSE o

\* A send that tests the wrong flag before it stores its value.
SendRejects_WrongFlag(st) == Contains(st, SENDER_DROPPED)

\* A send that never looks at RECEIVER_DROPPED.
SendRejects_Never(st) == FALSE

\* send: `if state.contains(ChannelState::RECEIVER_DROPPED)`.
SendRejects(st) == Contains(st, RECEIVER_DROPPED)

\* send: `if state.contains(ChannelState::WAKER_REGISTERED)`.
SendWakes(st) == Contains(st, WAKER_REGISTERED)

\* A drop that tests the flag it has just inserted in place of the
\* Receiver's.
DropWakes_WrongFlag(prev) == Contains(prev, SENDER_DROPPED)

\* A drop that reads the waker slot whatever the state word says.
DropWakes_Always(prev) == TRUE

\* Drop for Sender: `if value.contains(ChannelState::WAKER_REGISTERED)`,
\* value being the state word fetch_update replaced.
DropWakes(prev) == Contains(prev, WAKER_REGISTERED)

\* send, up to its first branch: load the state; return Err when the
\* Receiver is gone (self is dropped on the way out), else go on to the
\* wake or to the publication of SENDER_SENT.
SendLoad(s) ==
  /\ snd[s].pc = "idle"
  /\ snd' = [snd EXCEPT ![s] =
       [@ EXCEPT !.val = IF SendRejects(state) THEN Uninit ELSE Payload(s),
                 !.owes = IF Contains(state, WAKER_REGISTERED)
                          THEN "owed" ELSE "no",
                 !.res = IF SendRejects(state) THEN "Err" ELSE "none",
                 !.racy = ~SendRejects(state) /\ SendWakes(state)
                            /\ WriterPending,
                 !.pc = IF SendRejects(state) THEN "s_drop"
                        ELSE IF SendWakes(state) THEN "s_wake"
                        ELSE "s_insert"]]
  /\ UNCHANGED <<chan, rcv, woken, wokeParked>>

\* send: self.channel.wake_unchecked().
SendWake(s) ==
  /\ snd[s].pc = "s_wake"
  /\ WakeUnchecked(snd[s].racy)
  /\ snd' = [snd EXCEPT ![s] =
       [@ EXCEPT !.owes = Paid(@), !.racy = FALSE, !.pc = "s_insert"]]
  /\ UNCHANGED <<chan, rcv>>

\* send: fetch_update inserting SENDER_SENT.
SendInsert(s) ==
  /\ snd[s].pc = "s_insert"
  /\ state' = Insert(state, SENDER_SENT)
  /\ snd' = [snd EXCEPT ![s] = [@ EXCEPT !.pc = "s_write"]]
  /\ UNCHANGED <<waker, value, rcv, woken, wokeParked>>

\* send: write_value(value), then Ok(()); self is dropped on the way out.
SendWrite(s) ==
  /\ snd[s].pc = "s_write"
  /\ value' = snd[s].val
  /\ snd' = [snd EXCEPT ![s] = [@ EXCEPT !.res = "Ok", !.pc = "s_drop"]]
  /\ UNCHANGED <<state, waker, rcv, woken, wokeParked>>

\* Drop for Sender, the fetch_update: of a handle that was never used
\* ("idle") or of the self of a send that is returning ("s_drop").
SenderDropUpdate(s) ==
  /\ snd[s].pc \in {"idle", "s_drop"}
  /\ state' = Insert(state, SENDER_DROPPED)
  /\ snd' = [snd EXCEPT ![s] =
       [@ EXCEPT !.owes = IF snd[s].pc # "idle" THEN @
                          ELSE IF Contains(state, WAKER_REGISTERED)
                          THEN "owed" ELSE "no",
                 !.racy = DropWakes(state) /\ WriterPending,
                 !.pc = IF DropWakes(state) THEN "d_wake" ELSE "done"]]
  /\ UNCHANGED <<waker, value, rcv, woken, wokeParked>>

\* Drop for Sender, the wake.
SenderDropWake(s) ==
  /\ snd[s].pc = "d_wake"
  /\ WakeUnchecked(snd[s].racy)
  /\ snd' = [snd EXCEPT ![s] =
       [@ EXCEPT !.owes = Paid(@), !.racy = FALSE, !.pc = "done"]]
  /\ UNCHANGED <<chan, rcv>>

\* ---------------------------------------------------------- Receiver side

\* try_recv's decision on the state word it loaded.
TryRecvOutcome(st) ==
  IF Contains(st, SENDER_SENT) THEN "Some"
  ELSE IF Contains(st, SENDER_DROPPED) THEN "Err"
  ELSE "None"

\* A try_get_sender that tests the wrong flag.
TryGetSenderOk_WrongFlag(st) == Contains(st, SENDER_SENT)

\* try_get_sender: `if !...contains(ChannelState::SENDER_DROPPED)` fails.
TryGetSenderOk(st) == Contains(st, SENDER_DROPPED)

\* try_recv (called directly, op = "try_recv", or by poll, op = "poll" with
\* the callback w of its Context): load the state and branch on it.  The
\* value is read in a step of its own; the others return here.
RecvLoad(op, w) ==
  /\ rpc = "idle"
  /\ rcx' = w
  /\ LET out == TryRecvOutcome(state) IN
       /\ rpc' = IF out = "Some" THEN "r_read"
                 ELSE IF out = "None" /\ op = "poll" THEN "p_write"
                 ELSE "idle"
       /\ rres' = IF out = "Err" THEN [kind |-> "Err", val |-> Uninit]
                  ELSE IF out = "None" /\ op = "try_recv"
                       THEN [kind |-> "None", val |-> Uninit]
                  ELSE rres
       /\ rseen' = IF out = "Some" THEN SentOkValues ELSE {}
       /\ errSeen' = (errSeen \/ out = "Err")
       /\ snd' = IF out = "None" /\ op = "poll"
                 THEN [s \in Senders |->
                         [snd[s] EXCEPT !.racy = @ \/ AtWakerRead(s)]]
                 ELSE snd
  /\ replaced' = Uninit
  /\ UNCHANGED <<chan, gotValue, woken, wokeParked>>

TryRecv == RecvLoad("try_recv", Uninit)
Poll(w) == RecvLoad("poll", w)

\* A read that moves the value out and leaves the slot empty.
RecvRead_Takes ==
  /\ rpc = "r_read"
  /\ \E v \in ReadSlot(value, Values) :
        /\ rres' = [kind |-> "Some", val |-> v]
        /\ gotValue' = (gotValue \/ value \in Values)
  /\ value' = Uninit
  /\ rseen' = {}
  /\ rpc' = "idle"
  /\ UNCHANGED <<state, waker, snd, rcx, errSeen, woken, wokeParked,
                 replaced>>

\* read_value_unchecked: Ok(Some(v)), Poll::Ready(Ok(v)) under poll.
RecvRead ==
  /\ rpc = "r_read"
  /\ \E v \in ReadSlot(value, Values) :
        /\ rres' = [kind |-> "Some", val |-> v]
        /\ gotValue' = (gotValue \/ value \in Values)
  /\ rseen' = {}
  /\ rpc' = "idle"
  /\ UNCHANGED <<chan, snd, rcx, errSeen, woken, wokeParked, replaced>>

\* A write_waker that keeps the callback the slot already holds.
WriteWaker_KeepFirst(w) == waker' = IF waker = Uninit THEN w ELSE waker

\* Channel::write_waker: MaybeUninit::write, whatever the slot held.
WriteWaker(w) == waker' = w

\* poll, None arm: write_waker(cx.waker().clone()).
PollWriteWaker ==
  /\ rpc = "p_write"
  /\ WriteWaker(rcx)
  /\ woken' = Uninit
  /\ wokeParked' = FALSE
  /\ replaced' = waker
  /\ rpc' = "p_insert"
  /\ UNCHANGED <<state, value, snd, rcx, rres, rseen, gotValue, errSeen>>

\* poll, None arm: fetch_update inserting WAKER_REGISTERED; Poll::Pending.
PollInsert ==
  /\ rpc = "p_insert"
  /\ state' = Insert(state, WAKER_REGISTERED)
  /\ rres' = [kind |-> "Pending", val |-> Uninit]
  /\ rpc' = "idle"
  /\ UNCHANGED <<waker, value, snd, rcx, rseen, gotValue, errSeen, woken,
                 wokeParked,
                 replaced>>

\* try_get_sender: a new handle when SENDER_DROPPED is set, Err(()) if not.
TryGetSender ==
  /\ rpc = "idle"
  /\ TryGetSenderOk(state) => FreeSenders # {}
  /\ snd' = IF TryGetSenderOk(state)
            THEN [snd EXCEPT ![NewSender] = FreshHandle]
            ELSE snd
  /\ UNCHANGED <<chan, rcv, woken, wokeParked>>

\* Drop for Receiver.
ReceiverDrop ==
  /\ rpc = "idle"
  /\ state' = Insert(state, RECEIVER_DROPPED)
  /\ rpc' = "dropped"
  /\ UNCHANGED <<waker, value, snd, rcx, rres, rseen, gotValue, errSeen,
                 woken, wokeParked, replaced>>

Next ==
  \/ \E s \in Senders : SendLoad(s)
  \/ \E s \in Senders : SendWake(s)
  \/ \E s \in Senders : SendInsert(s)
  \/ \E s \in Senders : SendWrite(s)
  \/ \E s \in Senders : SenderDropUpdate(s)
  \/ \E s \in Senders : SenderDropWake(s)
  \/ TryRecv
  \/ \E w \in Wakers : Poll(w)
  \/ RecvRead
  \/ PollWriteWaker
  \/ PollInsert
  \/ TryGetSender
  \/ ReceiverDrop

Spec == Init /\ [][Next]_vars

TypeOK ==
  /\ state \subseteq Flags
  /\ waker \in Wakers \cup {Uninit}
  /\ value \in Values \cup {Uninit}
  /\ rpc \in {"idle", "r_read", "p_write", "p_insert", "dropped"}
  /\ woken \in Wakers \cup {Uninit}
  /\ wokeParked \in BOOLEAN
  /\ rcx \in Wakers \cup {Uninit}
  /\ replaced \in Wakers \cup {Uninit}

\* ------------------------------------------------------ steps, for claims

\* A try_recv or a poll starts: the step that loads the state.
RecvCallStarts == TryRecv \/ \E w \in Wakers : Poll(w)
\* A poll starts.
PollStarts == \E w \in Wakers : Poll(w)
\* The Senders that were dropped without a send.
DroppedUnsent == {s \in Senders : snd[s].pc = "done" /\ snd[s].res = "none"}
\* A handle that can still be used: it exists and its drop has not begun.
Usable(s) == snd[s].pc \in {"idle", "s_wake", "s_insert", "s_write"}
UsableSenders == {s \in Senders : Usable(s)}

\* ----------------------------------------------------------------- claims

\* C1: when send(v) has returned Ok, a try_recv or poll that starts after
\* that return yields a value (it goes on to read the slot rather than
\* return None, Pending or an error), and the value it yields is v.
C1_SentValueIsReceived ==
  [][ /\ (RecvCallStarts /\ SentOk # {}) => rpc' = "r_read"
      /\ RecvRead => \A v \in rseen : rres'.val = v ]_vars

\* C2: the sent value is handed out at most once: once a call has returned
\* a sent value, no later try_recv or poll returns one.
C2_DeliveredAtMostOnce ==
  [][gotValue => ~(RecvRead /\ value \in Values)]_vars

\* C3: the value slot is written before SENDER_SENT is published (whenever
\* SENDER_SENT is set the slot holds a sent value), and the slot is read
\* only by a call that observed SENDER_SENT.
C3_ValueWrittenBeforeSent ==
  /\ Contains(state, SENDER_SENT) => value \in Values
  /\ rpc = "r_read" => Contains(state, SENDER_SENT)

C5_NoMissedWakeOnSend ==
  (rpc = "idle" /\ rres.kind = "Pending" /\ SentOk # {}) => woken \in Wakers

\* C6: whenever a poll has returned Pending and a Sender that never sent
\* has been dropped, the callback has been invoked since the poll stored it.
C6_NoHangOnSenderDrop ==
  (rpc = "idle" /\ rres.kind = "Pending" /\ DroppedUnsent # {})
     => woken \in Wakers

\* C7: a send that is called when RECEIVER_DROPPED is set returns
\* Err(ReceiverDroppedError) and keeps nothing of its value, and a send
\* that returns Err neither inserts SENDER_SENT nor writes the value slot.
C7_SendAfterReceiverDrop ==
  /\ [][\A s \in Senders :
          (SendLoad(s) /\ Contains(state, RECEIVER_DROPPED))
          => (snd'[s].res = "Err" /\ snd'[s].pc = "s_drop"
              /\ snd'[s].val = Uninit)]_vars
  /\ [][\A s \in Senders :
          (snd[s].res = "Err" /\ snd'[s] # snd[s])
          => (value' = value
              /\ (Contains(state', SENDER_SENT)
                    <=> Contains(state, SENDER_SENT)))]_vars

C7_Witness ==
  \E s \in Senders :
     /\ snd[s].pc = "done" /\ snd[s].res = "Err"
     /\ Contains(state, RECEIVER_DROPPED)
     /\ ~Contains(state, SENDER_SENT) /\ value = Uninit

\* C8: once a Sender has been dropped without sending, every try_recv and
\* every poll that starts afterwards returns SenderDroppedError.
C8_ReceiveAfterSenderDrop ==
  [][(RecvCallStarts /\ DroppedUnsent # {})
       => (rpc' = "idle" /\ rres'.kind = "Err")]_vars

\* C9: once a try_recv or poll has returned SenderDroppedError, no later
\* try_recv or poll returns a sent value.
C9_SenderDroppedIsTerminal ==
  [][errSeen => ~(RecvRead /\ value \in Values)]_vars

\* C10: at most one usable Sender handle exists at any time.
C10_AtMostOneSender == Cardinality(UsableSenders) <= 1

\* C11: try_get_sender hands out a new Sender only if SENDER_DROPPED is
\* set: a handle comes into being only in a state where the flag is set,
\* and a try_get_sender called while it is not set creates no handle.
C11_NewSenderOnlyAfterDrop ==
  [][ /\ (\E s \in Senders : ~Usable(s) /\ Usable(s)')
           => Contains(state, SENDER_DROPPED)
      /\ (TryGetSender /\ ~Contains(state, SENDER_DROPPED))
           => snd' = snd ]_vars

C11_Witness ==
  /\ Contains(state, SENDER_DROPPED)
  /\ \E s \in Senders : snd[s].pc = "idle"

\* C12: the value slot is written at most once in the lifetime of the
\* channel: every write_value finds the slot never written.
C12_ValueWrittenOnce ==
  [][\A s \in Senders : SendWrite(s) => value = Uninit]_vars

\* C13: the state word is monotonic: no step clears a flag that is set.
C13_FlagsOnlyAccumulate == [][state \subseteq state']_vars

C13_Witness == state = Flags

\* The steps of a try_recv, and of a poll that returns Completed: the load
\* of a call that does not take poll's None arm, and the read of the value.
TerminalProbe == (RecvCallStarts /\ rpc' # "p_write") \/ RecvRead

\* C14: a try_recv, and a poll that returns Completed, leave the state
\* word, the waker slot and the value slot as they were; and after a call
\* has returned a value or SenderDroppedError, no later call takes poll's
\* None arm, the only Receiver code that writes to the channel.
C14_TerminalProbeChangesNothing ==
  [][ /\ TerminalProbe => UNCHANGED chan
      /\ (RecvCallStarts /\ rres.kind \in {"Some", "Err"})
           => rpc' # "p_write" ]_vars

C14_Witness ==
  /\ rpc = "idle" /\ rres.kind = "Some" /\ gotValue
  /\ Contains(state, WAKER_REGISTERED) /\ waker \in Wakers
  /\ value \in Values

\* C15: whenever WAKER_REGISTERED is set the waker slot holds a callback,
\* and a send or a Sender drop is at its read of the slot only when
\* WAKER_REGISTERED is set.
C15_WakerInitialisedWhenRegistered ==
  /\ Contains(state, WAKER_REGISTERED) => waker \in Wakers
  /\ \A s \in Senders :
       snd[s].pc \in {"s_wake", "d_wake"} => Contains(state, WAKER_REGISTERED)

C15_Witness ==
  /\ Contains(state, WAKER_REGISTERED)
  /\ \E s \in Senders : snd[s].pc = "d_wake" /\ snd[s].res = "none"

\* C16: the waker slot is written once: no poll writes it when
\* WAKER_REGISTERED is set, and no read of the slot by a Sender races with
\* a write of it.
C16_WakerWrittenOnce ==
  /\ [][PollWriteWaker => ~Contains(state, WAKER_REGISTERED)]_vars
  /\ [](\A s \in Senders : ~snd[s].racy)

\* The send or the drop of handle s invokes the callback.
SenderWakes(s) == SendWake(s) \/ SenderDropWake(s)

\* C17: last registrant wins: when the last call of the Receiver was a
\* poll that returned Pending, the callback invoked by a send or a Sender
\* drop that began after that poll is the one the poll was given, whatever
\* earlier polls stored.
C17_LastRegistrantWins ==
  [][\A s \in Senders :
       (SenderWakes(s) /\ Parked /\ ~snd[s].racy) => woken' = rcx]_vars

C17_Witness ==
  /\ Parked
  /\ replaced \in Wakers /\ replaced # rcx
  /\ wokeParked /\ woken = rcx

\* C18: a sent value wins over the drop of the Sender: a try_recv or poll
\* that loads the state with SENDER_SENT set goes on to the value, also
\* when SENDER_DROPPED is set, and what it returns with both flags set is
\* a value that was sent; it returns SenderDroppedError when it loads
\* SENDER_DROPPED set and SENDER_SENT not, None or Pending when neither.
C18_SentWinsOverDrop ==
  [][ /\ RecvCallStarts =>
           /\ Contains(state, SENDER_SENT) <=> rpc' = "r_read"
           /\ (Contains(state, SENDER_DROPPED) /\ rpc' # "r_read")
                => (rpc' = "idle" /\ rres'.kind = "Err")
           /\ (~Contains(state, SENDER_DROPPED) /\ rpc' # "r_read")
                => (rpc' = "p_write" \/ rres'.kind = "None")
      /\ (RecvRead /\ Contains(state, SENDER_DROPPED))
           => rres'.val \in Values ]_vars

\* C19, as claimed: send neither inserts SENDER_SENT nor writes the value
\* slot when RECEIVER_DROPPED is set.
C19_NeverStoresForGoneReceiver ==
  [][\A s \in Senders :
       (SendInsert(s) \/ SendWrite(s))
         => ~Contains(state, RECEIVER_DROPPED)]_vars

\* C19, amended: send decides at its load of the state word.  It returns
\* Err exactly when RECEIVER_DROPPED is set at that load, and then keeps
\* nothing; a send that found the Receiver alive at its load stores its
\* value and returns Ok, whatever the Receiver does after the load.
C19_SendDecidesAtLoad ==
  [][\A s \in Senders :
       /\ SendLoad(s) =>
            /\ Contains(state, RECEIVER_DROPPED) <=> snd'[s].res = "Err"
            /\ ~Contains(state, RECEIVER_DROPPED)
                 => snd'[s].pc \in {"s_wake", "s_insert"}
       /\ SendInsert(s) => Contains(state', SENDER_SENT)
       /\ SendWrite(s) => (value' = Payload(s) /\ snd'[s].res = "Ok")
       /\ snd'[s].res = "Ok" => snd[s].res \in {"none", "Ok"} ]_vars

C19_Witness ==
  \E s \in Senders :
     /\ snd[s].pc = "s_write" /\ snd[s].res = "none"
     /\ rpc = "dropped" /\ Contains(state, RECEIVER_DROPPED)
     /\ Contains(state, SENDER_SENT) /\ value = Uninit

\* The Senders whose send found WAKER_REGISTERED set at its load, made the
\* early wake and has returned Ok, the drop of the handle over.
SentOkWoke == {s \in SentOk : snd[s].owes = "paid"}

\* C20: when a send that found WAKER_REGISTERED set at its load has
\* returned Ok, a Receiver that is parked on Pending has been woken since
\* it stored its callback: the drop of the Sender has invoked it.
C20_RepolledReceiverIsWoken ==
  (Parked /\ SentOkWoke # {}) => woken \in Wakers

====
